---------------------------- MODULE Spec2Model ----------------------------
(***************************************************************************)
(* Model of find_weak_outputs_skein.cpp: the randomized branch-and-bound   *)
(* search for weak outputs of round-reduced Skein-512.                     *)
(*                                                                         *)
(* Spec     the OpenMP worker pool of main(): cpu_num threads, each running*)
(*          the for(;;) loop over candidates and stages 3..7, sharing the  *)
(*          unsynchronized double min_total_solving_runtime.               *)
(* SpecCnf  gen_rand_cnf as a function from (template file, candidate,    *)
(*          stage, seed) to the instance file it writes.                   *)
(* SpecSeq  gen_rand_output as a function of the generator's state.        *)
(* SpecLog  read_solver_result as a function of the verdict log.           *)
(* SpecCli  main() from its argument vector up to the parallel loop.       *)
(*                                                                         *)
(* Runtimes are the millisecond counts elapsed_time_sec() measures; the    *)
(* code divides them by 1000 and sums them as doubles, the model keeps the *)
(* integer millisecond sums (same order, same addition).                   *)
(***************************************************************************)
EXTENDS Integers, Sequences, FiniteSets, TLC

VARIABLES
    \* ---- main(): shared between the OpenMP threads
    cpu_num,                    \* stoi(argv[1])
    min_total_solving_runtime,  \* the shared best bound (-1: not set)
    \* ---- main(): private to the thread running iteration i (indexed by i)
    pc,                 \* position of thread i in the loop body
    checked_outputs,
    rng,                \* mt19937 state: [seed, draws]
    rand_output,        \* the candidate, kept as the rng state it was drawn from
    cur_total_runtime,
    unsat_inst,
    is_break,
    operat_num,
    cnf_name,           \* the instance file gen_rand_cnf returned for the stage
    \* ---- observers of the current candidate (no counterpart in the code)
    sent,               \* stages handed to solve_cnf, in order
    disposition,        \* running / pruned / inconclusive / too_many_unsat / completed
    prune_due,          \* at stage entry the bound was set and cur_total_runtime >= bound
    completed_min,      \* least cur_total_runtime over all completed candidates
    completed_totals,   \* the cur_total_runtime of every completed candidate
    entered,            \* stages whose loop body the candidate entered, in order
    out_lines,          \* lines the candidate's stages appended to out_seed<i>
    discovery,          \* the "Updated min_total_solving_runtime" text of the last pass
    \* ---- the environment
    oracle,             \* how the solver behaves: "any" verdict, or always "silent"
    templates,          \* the template file of every stage
    status,             \* the process: running / aborted / exited
    \* ---- gen_rand_cnf called on its own (SpecCnf)
    cnf_pc,             \* idle / ready / written / aborted
    tmpl_file,          \* lines of the stage's template file
    cnf_arg,            \* [rand_output, operat_num, seed]
    cnf_file,           \* lines of the instance file written
    \* ---- gen_rand_output called on its own (SpecSeq)
    seq_rng,            \* the mt19937 passed by reference: [seed, draws]
    str8,               \* the string returned (empty before the call)
    \* ---- read_solver_result called on its own (SpecLog)
    log_file,           \* the file named fname: [open, lines]
    log_res,            \* the result returned ("" before the call)
    \* ---- main() up to the parallel loop (SpecCli)
    str_argv,           \* the argument vector, the program name first
    outcome             \* what the process printed and how it went on

mainVars == <<cpu_num, min_total_solving_runtime, pc, checked_outputs, rng,
              rand_output, cur_total_runtime, unsat_inst, is_break, operat_num,
              cnf_name, sent, disposition, prune_due, completed_min,
              completed_totals, entered, out_lines, discovery,
              oracle, templates, status>>

cnfVars == <<cnf_pc, tmpl_file, cnf_arg, cnf_file>>

seqVars == <<seq_rng, str8>>

logVars == <<log_file, log_res>>

cliVars == <<str_argv, outcome>>

\* everything outside main()'s parallel loop
sideVars == <<cnfVars, seqVars, logVars, cliVars>>

vars == <<mainVars, sideVars>>

---------------------------------------------------------------------------
\* Bounds of the model.

\* largest worker count tried
MaxCpu == 2

\* candidates generated by all workers together
MaxChecked == 2

\* largest wall-clock time of one solver call, in milliseconds
MaxRuntime == 1

\* longest verdict log, in lines
MaxLogLines == 2

\* largest seed gen_rand_output is tried with
MaxSeed == 7

\* most draws already taken from the generator gen_rand_output is handed
MaxDraws == 15

\* longest verdict log read_solver_result is tried on, in lines
MaxScanLines == 3

\* longest command-line argument, in characters
MaxArgLen == 2

---------------------------------------------------------------------------
\* Program constants.

MAX_UNSAT_INST == 3

SEQ_LEN == 512

SUBSEQ_LEN_1 == 8

FIRST_OPERAT == 3

LAST_OPERAT == 7

UNSET == -1

MAX_LIMITS_SEC == <<3, 4, 5, 20, 30>>

UNSAT == "UNSAT"

SAT == "SAT"

INTERR == "INTERR"

Workers == 0 .. (cpu_num - 1)

---------------------------------------------------------------------------
\* The solver's verdict log and read_solver_result.

\* A log line is the set of markers it contains (str.find(marker) != npos).
SatMarker == "s SATISFIABLE"

UnsatMarker == "s UNSATISFIABLE"

LogLines == SUBSET {SatMarker, UnsatMarker}

RECURSIVE SeqsUpTo(_, _)
SeqsUpTo(S, n) ==
    IF n = 0 THEN {<<>>}
    ELSE LET shorter == SeqsUpTo(S, n - 1)
         IN  shorter \cup {Append(s, x) : s \in {t \in shorter : Len(t) = n - 1}, x \in S}

AllLogs == SeqsUpTo(LogLines, MaxLogLines)

\* (mutant: no break, the last line holding a marker decides)
RECURSIVE ScanLog_LastWins(_, _)
ScanLog_LastWins(log, k) ==
    IF k > Len(log) THEN INTERR
    ELSE LET rest == ScanLog_LastWins(log, k + 1)
         IN  IF rest # INTERR THEN rest
             ELSE IF SatMarker \in log[k] THEN SAT
             ELSE IF UnsatMarker \in log[k] THEN UNSAT
             ELSE INTERR

\* while (getline) { if find(SAT) {res = SAT; break} else if find(UNSAT) {res = UNSAT; break} }
RECURSIVE ScanLog(_, _)
ScanLog(log, k) ==
    IF k > Len(log) THEN INTERR
    ELSE IF SatMarker \in log[k] THEN SAT
    ELSE IF UnsatMarker \in log[k] THEN UNSAT
    ELSE ScanLog(log, k + 1)

read_solver_result(log) == ScanLog(log, 1)

InconclusiveLogs == {log \in AllLogs : \A k \in 1 .. Len(log) : log[k] = {}}

\* the logs a solver of the given behaviour can leave behind
OracleLogs(mode) == IF mode = "silent" THEN InconclusiveLogs ELSE AllLogs

\* exec(system_str); result res = read_solver_result(out_fname);
\* the results solve_cnf can return when the solver leaves one of `logs` behind
solve_cnf(logs) == {read_solver_result(log) : log \in logs}

\* time_lim = MAX_LIMITS_SEC[operat_num-3]
TimeLim(op) == MAX_LIMITS_SEC[op - FIRST_OPERAT + 1]

---------------------------------------------------------------------------
\* The random source and rand_seq8.

\* dist(rng): the n-th draw of a generator seeded with seed.  std::mt19937 is
\* library code; it is stood in for by a fixed function of (seed, n).
MtDraw(seed, n) == (((seed + 1) * 13 + n * 7 + (n \div 3) * 5 + (n \div 8) * 3) \div 2) % 2

\* (mutant: the second half repeats the draws instead of inverting them)
Block8_Repeat(seed, first) ==
    [j \in 1 .. (2 * SUBSEQ_LEN_1) |->
        IF j <= SUBSEQ_LEN_1 THEN MtDraw(seed, first + j - 1)
        ELSE MtDraw(seed, first + j - SUBSEQ_LEN_1 - 1)]

\* one pass of the do-while body: 8 draws followed by their inverses
Block8(seed, first) ==
    [j \in 1 .. (2 * SUBSEQ_LEN_1) |->
        IF j <= SUBSEQ_LEN_1 THEN MtDraw(seed, first + j - 1)
        ELSE 1 - MtDraw(seed, first + j - SUBSEQ_LEN_1 - 1)]

\* do { ... } while (sstream8.str().size() < SEQ_LEN)
RECURSIVE Seq8Loop(_, _, _)
Seq8Loop(seed, first, acc) ==
    LET acc2 == acc \o Block8(seed, first)
    IN  IF Len(acc2) < SEQ_LEN THEN Seq8Loop(seed, first + SUBSEQ_LEN_1, acc2)
        ELSE [str |-> acc2, draws |-> first + SUBSEQ_LEN_1]

rand_seq8(r) == Seq8Loop(r.seed, r.draws, <<>>)

gen_rand_output(r) == rand_seq8(r)

\* mt19937 rng;   -- default-constructed, before rng.seed(i)
DefaultSeed == 5489

\* rand_output outside the loop body that declares it
NoOutput == [seed |-> DefaultSeed, draws |-> 0]

---------------------------------------------------------------------------
\* 64-bit unsigned arithmetic (size_t), as four 16-bit limbs, least first.

LimbBase == 2 ^ 16

U64(n) == <<n % LimbBase, n \div LimbBase, 0, 0>>

RECURSIVE AddLimbs(_, _, _, _)
AddLimbs(a, b, k, carry) ==
    IF k > Len(a) THEN <<>>
    ELSE LET s == a[k] + b[k] + carry
         IN  <<s % LimbBase>> \o AddLimbs(a, b, k + 1, s \div LimbBase)

RECURSIVE SubLimbs(_, _, _, _)
SubLimbs(a, b, k, borrow) ==
    IF k > Len(a) THEN <<>>
    ELSE LET d == a[k] - b[k] - borrow
         IN  <<d % LimbBase>> \o SubLimbs(a, b, k + 1, IF d < 0 THEN 1 ELSE 0)

\* a + b and a - b modulo 2^64
U64Add(a, b) == AddLimbs(a, b, 1, 0)

U64Sub(a, b) == SubLimbs(a, b, 1, 0)

\* TRUE when the value is one the model's integers can hold
U64IsSmall(a) == a[3] = 0 /\ a[4] = 0 /\ a[2] < 16384

U64ToNat(a) == a[1] + a[2] * LimbBase

---------------------------------------------------------------------------
\* Text of the DIMACS files: a line is the sequence of its words; a word is
\* either a name (w # "") or a decimal number, printed as "-"? then mag.

Word(name) == [w |-> name, neg |-> FALSE, mag |-> U64(0)]

Num(n) == [w |-> "", neg |-> n < 0, mag |-> U64(IF n < 0 THEN 0 - n ELSE n)]

\* str[0] == c
StartsWith(line, c) == line # <<>> /\ line[1].w = c

\* sstream2 >> word; sstream2 >> word; sstream2 >> word;
\* a failed extraction leaves word as it was
ThirdWord(line) == IF Len(line) >= 3 THEN line[3] ELSE line[Len(line)]

\* istringstream(word) >> var_num;   (no template of the model has a signed
\* count or one of 2^31 or more)
ParseUnsigned(word) == IF word.w = "" /\ ~word.neg THEN U64ToNat(word.mag) ELSE 0

\* lines 132-146: the loop over the template's lines
RECURSIVE ReadTemplate(_, _, _, _)
ReadTemplate(lines, k, var_num, base_clauses) ==
    IF k > Len(lines) THEN [var_num |-> var_num, base_clauses |-> base_clauses]
    ELSE IF StartsWith(lines[k], "c")
         THEN ReadTemplate(lines, k + 1, var_num, base_clauses)
    ELSE IF StartsWith(lines[k], "p")
         THEN ReadTemplate(lines, k + 1, ParseUnsigned(ThirdWord(lines[k])), base_clauses)
    ELSE ReadTemplate(lines, k + 1, var_num, Append(base_clauses, lines[k]))

\* (mutant: the second assert is left out)
TemplateAccepted_CountOnly(t) == t.var_num > 0

\* assert(var_num > 0); assert(base_clauses.size() > 0);
TemplateAccepted(t) == t.var_num > 0 /\ Len(t.base_clauses) > 0

\* "p cnf " << var_num << " " << base_clauses.size() + rand_output.size()
HeaderLine(var_num, nbase, nout) ==
    <<Word("p"), Word("cnf"), Num(var_num),
      [w |-> "", neg |-> FALSE, mag |-> U64Add(U64(nbase), U64(nout))]>>

\* (mutant: the sign goes to the 1 bits)
UnitNegated_Flipped(bit) == bit = 1

\* if (rand_output[i] == '0') ofile << "-";
UnitNegated(bit) == bit = 0

\* var_num - rand_output.size() + 1 + i      (i counted from 0)
UnitVar(var_num, nout, i) ==
    U64Add(U64Add(U64Sub(U64(var_num), U64(nout)), U64(1)), U64(i))

UnitLine(var_num, out, i) ==
    <<[w |-> "", neg |-> UnitNegated(out[i + 1]), mag |-> UnitVar(var_num, Len(out), i)],
      Num(0)>>

\* lines 155-162: what is written to the instance file
InstanceLines(t, out) ==
    <<HeaderLine(t.var_num, Len(t.base_clauses), Len(out))>>
    \o t.base_clauses
    \o [i \in 1 .. Len(out) |-> UnitLine(t.var_num, out, i - 1)]

\* CNF_NAME_PART_1 << operat_num << CNF_NAME_PART_2 << "_hashlen512_seed" << seed << ".cnf"
RandCnfName(op, seed) == [operat_num |-> op, seed |-> seed]

---------------------------------------------------------------------------
\* The inputs gen_rand_cnf is tried on.

TemplateVars == {100, 511, 512, 600}

TemplateClauses == {1, 3, 50}

CnfOperats == {FIRST_OPERAT, LAST_OPERAT}

CnfSeeds == {0, 1}

CnfBytes == {<<1, 0, 1, 1, 0, 1, 0, 0>>, <<0, 0, 0, 0, 0, 0, 0, 0>>, <<1, 1, 1, 1, 1, 1, 1, 1>>}

\* a template of v variables and c clauses, with two comment lines
MakeTemplate(v, c) ==
    <<<<Word("c"), Word("skein")>>, <<Word("p"), Word("cnf"), Num(v), Num(c)>>>>
    \o [k \in 1 .. c |-> <<Num(k), Num(0 - (((k * 7) % v) + 1)), Num(0)>>]
    \o <<<<Word("c"), Word("end")>>>>

\* templates the asserts reject: no file, no clause line, no header, a header
\* without a count, a count of 0
MissingTemplate == <<>>

NoClauseTemplate == <<<<Word("p"), Word("cnf"), Num(600), Num(0)>>>>

NoHeaderTemplate == <<<<Num(1), Num(-2), Num(0)>>>>

NoCountTemplate == <<<<Word("p"), Word("cnf")>>, <<Num(1), Num(-2), Num(0)>>>>

ZeroCountTemplate == <<<<Word("p"), Word("cnf"), Num(0), Num(1)>>, <<Num(1), Num(-2), Num(0)>>>>

BadTemplates ==
    {MissingTemplate, NoClauseTemplate, NoHeaderTemplate, NoCountTemplate, ZeroCountTemplate}

Templates == {MakeTemplate(v, c) : v \in TemplateVars, c \in TemplateClauses} \cup BadTemplates

\* strings rand_seq8 can return: 32 blocks, each a byte and its inverse
ByteBlock(byte) == byte \o [j \in 1 .. Len(byte) |-> 1 - byte[j]]

RECURSIVE RepeatBlocks(_, _, _)
RepeatBlocks(b1, b2, acc) ==
    IF Len(acc) >= SEQ_LEN THEN acc
    ELSE RepeatBlocks(b2, b1, acc \o ByteBlock(b1))

CnfCandidates == {RepeatBlocks(b1, b2, <<>>) : b1 \in CnfBytes, b2 \in CnfBytes}

---------------------------------------------------------------------------
\* main(): the per-thread loop.

\* if ((min_total_solving_runtime > 0) and ...   -- first operand, line 245
BoundSeenPositive(bound) == bound > 0

\* ... (cur_total_runtime >= min_total_solving_runtime))   -- second operand
RuntimeUsedUp(cur, bound) == cur >= bound

\* (mutant: the test names the wrong verdict)
StopsOnInterr_Sat(res) == res = SAT

\* if (res == INTERR) { is_break = true; break; }
StopsOnInterr(res) == res = INTERR

\* else if (res == UNSAT) unsat_inst++;
CountUnsat(u, res) == IF res = UNSAT THEN u + 1 ELSE u

\* (mutant: >= for >)
TooManyUnsat_AtThreshold(u) == u >= MAX_UNSAT_INST

\* if (unsat_inst > MAX_UNSAT_INST) { ...; is_break = true; break; }
TooManyUnsat(u) == u > MAX_UNSAT_INST

\* (mutant: the loop steps by two)
NextOperat_Skip(op) == op + 2

\* for (unsigned operat_num=3; operat_num<=7; operat_num++)
NextOperat(op) == op + 1

LoopContinues(op) == op <= LAST_OPERAT

\* if ((min_total_solving_runtime < 0) or ...   -- first operand, line 282
BoundSeenUnset(bound) == bound < 0

\* ... (cur_total_runtime < min_total_solving_runtime))   -- second operand
RuntimeBeatsBound(cur, bound) == cur < bound

LeastOf(a, b) == IF a = UNSET \/ b < a THEN b ELSE a

TotalChecked ==
    LET RECURSIVE Sum(_)
        Sum(n) == IF n < 0 THEN 0 ELSE checked_outputs[n] + Sum(n - 1)
    IN  Sum(cpu_num - 1)
\* if (is_break) continue;   -- the update of the bound is skipped
\* (mutant: the update is never skipped)
SkipsUpdate_Never(brk) == FALSE

SkipsUpdate(brk) == brk

\* if (checked_outputs % 10 == 0)
ProgressDue(n) == n % 10 = 0

\* rng.seed(i)
\* (mutant: every thread seeds with 0)
ThreadSeed_Zero(i) == 0

ThreadSeed(i) == i

---------------------------------------------------------------------------
\* The files of a thread.  A name is the record of the parts it is built
\* from; two names are the same file exactly when the records are equal.

\* sstream_outfname << "out_seed" << i
OutputName(i) == [file |-> "out_seed", operat_num |-> 0, seed |-> i]

\* (mutant: the name leaves the seed out)
SolverLogName_Shared(seed) == [file |-> "log_solver_seed", operat_num |-> 0, seed |-> 0]

\* sstream << "log_solver_seed" << seed
SolverLogName(seed) == [file |-> "log_solver_seed", operat_num |-> 0, seed |-> seed]

\* the instance file of a stage, as a name of the same shape
InstanceName(op, seed) ==
    [file |-> "cbmc_skein_1r_of12_template_explicit_output_hashlen512_seed",
     operat_num |-> RandCnfName(op, seed).operat_num,
     seed |-> RandCnfName(op, seed).seed]

\* CNF_NAME_PART_1 << operat_num << CNF_NAME_PART_2 << ".cnf"   (read only)
TemplateName(op) ==
    [file |-> "cbmc_skein_1r_of12_template_explicit_output", operat_num |-> op, seed |-> 0]

---------------------------------------------------------------------------
\* The template files the pool is run with: complete, or one stage's broken.

GoodTemplate == MakeTemplate(600, 1)

AllGood == [op \in FIRST_OPERAT .. LAST_OPERAT |-> GoodTemplate]

StageTemplates ==
    {AllGood,
     [AllGood EXCEPT ![FIRST_OPERAT] = MissingTemplate],
     [AllGood EXCEPT ![FIRST_OPERAT] = ZeroCountTemplate],
     [AllGood EXCEPT ![FIRST_OPERAT + 1] = NoClauseTemplate],
     [AllGood EXCEPT ![FIRST_OPERAT + 2] = NoCountTemplate]}

\* gen_rand_cnf up to its asserts, on the template of stage op
StageTemplateAccepted(op) == TemplateAccepted(ReadTemplate(templates[op], 1, 0, <<>>))

---------------------------------------------------------------------------
\* Values of the variables of the parts that are not running.

SeqIdle == seq_rng = NoOutput /\ str8 = <<>>

LogIdle == log_file = [open |-> FALSE, lines |-> <<>>] /\ log_res = ""

NoOutcome == [printed |-> "", exit |-> "", workers |-> FALSE, cpu_num |-> U64(0)]

CliIdle == str_argv = <<>> /\ outcome = NoOutcome

CnfIdle ==
    /\ cnf_pc = "idle"
    /\ tmpl_file = <<>>
    /\ cnf_arg = <<>>
    /\ cnf_file = [name |-> "", lines |-> <<>>]

MainIdle ==
    /\ cpu_num = 0
    /\ min_total_solving_runtime = UNSET
    /\ pc = <<>>
    /\ checked_outputs = <<>>
    /\ rng = <<>>
    /\ rand_output = <<>>
    /\ cur_total_runtime = <<>>
    /\ unsat_inst = <<>>
    /\ is_break = <<>>
    /\ operat_num = <<>>
    /\ cnf_name = <<>>
    /\ sent = <<>>
    /\ disposition = <<>>
    /\ prune_due = <<>>
    /\ completed_min = UNSET
    /\ completed_totals = {}
    /\ entered = <<>>
    /\ out_lines = <<>>
    /\ discovery = <<>>
    /\ oracle = "any"
    /\ templates = <<>>
    /\ status = "running"

---------------------------------------------------------------------------
\* main(): the parallel loop.

Init ==
    /\ cpu_num \in 1 .. MaxCpu
    /\ min_total_solving_runtime = UNSET
    /\ pc = [w \in Workers |-> "start"]
    /\ checked_outputs = [w \in Workers |-> 0]
    /\ rng = [w \in Workers |-> [seed |-> DefaultSeed, draws |-> 0]]
    /\ rand_output = [w \in Workers |-> NoOutput]
    /\ cur_total_runtime = [w \in Workers |-> 0]
    /\ unsat_inst = [w \in Workers |-> 0]
    /\ is_break = [w \in Workers |-> FALSE]
    /\ operat_num = [w \in Workers |-> FIRST_OPERAT]
    /\ cnf_name = [w \in Workers |-> <<>>]
    /\ sent = [w \in Workers |-> <<>>]
    /\ disposition = [w \in Workers |-> "none"]
    /\ prune_due = [w \in Workers |-> FALSE]
    /\ completed_min = UNSET
    /\ completed_totals = {}
    /\ entered = [w \in Workers |-> <<>>]
    /\ out_lines = [w \in Workers |-> <<>>]
    /\ discovery = [w \in Workers |-> <<>>]
    /\ oracle \in {"any", "silent"}
    /\ templates \in StageTemplates
    /\ status = "running"
    /\ CnfIdle
    /\ SeqIdle
    /\ LogIdle
    /\ CliIdle

\* lines 225-236: open the thread's log with the header, seed the generator
Startup(w) ==
    /\ status = "running"
    /\ pc[w] = "start"
    /\ rng' = [rng EXCEPT ![w] = [seed |-> ThreadSeed(w), draws |-> 0]]
    /\ pc' = [pc EXCEPT ![w] = "gen"]
    /\ UNCHANGED <<cpu_num, min_total_solving_runtime, checked_outputs, rand_output,
                   cur_total_runtime, unsat_inst, is_break, operat_num, cnf_name, sent,
                   disposition, prune_due, completed_min, completed_totals, entered,
                   out_lines, discovery, oracle, templates, status, sideVars>>

\* lines 238-243: a fresh candidate and its accumulators
GenOutput(w) ==
    /\ status = "running"
    /\ pc[w] = "gen"
    /\ TotalChecked < MaxChecked
    /\ checked_outputs' = [checked_outputs EXCEPT ![w] = @ + 1]
    /\ cur_total_runtime' = [cur_total_runtime EXCEPT ![w] = 0]
    /\ rand_output' = [rand_output EXCEPT ![w] = rng[w]]
    /\ rng' = [rng EXCEPT ![w].draws = gen_rand_output(rng[w]).draws]
    /\ unsat_inst' = [unsat_inst EXCEPT ![w] = 0]
    /\ is_break' = [is_break EXCEPT ![w] = FALSE]
    /\ operat_num' = [operat_num EXCEPT ![w] = FIRST_OPERAT]
    /\ cnf_name' = [cnf_name EXCEPT ![w] = <<>>]
    /\ pc' = [pc EXCEPT ![w] = "check"]
    /\ sent' = [sent EXCEPT ![w] = <<>>]
    /\ disposition' = [disposition EXCEPT ![w] = "running"]
    /\ prune_due' = [prune_due EXCEPT ![w] = FALSE]
    /\ entered' = [entered EXCEPT ![w] = <<>>]
    /\ out_lines' = [out_lines EXCEPT ![w] = <<>>]
    /\ discovery' = [discovery EXCEPT ![w] = <<>>]
    /\ UNCHANGED <<cpu_num, min_total_solving_runtime, completed_min, completed_totals,
                   oracle, templates, status, sideVars>>

\* the stage loop's body is entered; line 245, first read of the shared bound
CheckBound(w) ==
    /\ status = "running"
    /\ pc[w] = "check"
    /\ pc' = [pc EXCEPT ![w] =
                IF BoundSeenPositive(min_total_solving_runtime) THEN "check2" ELSE "stage"]
    /\ prune_due' = [prune_due EXCEPT ![w] =
                        /\ min_total_solving_runtime # UNSET
                        /\ cur_total_runtime[w] >= min_total_solving_runtime]
    /\ entered' = [entered EXCEPT ![w] = Append(@, operat_num[w])]
    /\ UNCHANGED <<cpu_num, min_total_solving_runtime, checked_outputs, rng, rand_output,
                   cur_total_runtime, unsat_inst, is_break, operat_num, cnf_name, sent,
                   disposition, completed_min, completed_totals, out_lines, discovery,
                   oracle, templates, status, sideVars>>

\* line 245, second read of the shared bound, and lines 246-250
CheckBound2(w) ==
    /\ status = "running"
    /\ pc[w] = "check2"
    /\ IF RuntimeUsedUp(cur_total_runtime[w], min_total_solving_runtime)
       THEN /\ out_lines' = [out_lines EXCEPT ![w] =
                                Append(@, [kind |-> "pruned", operat_num |-> operat_num[w]])]
            /\ is_break' = [is_break EXCEPT ![w] = TRUE]
            /\ disposition' = [disposition EXCEPT ![w] = "pruned"]
            /\ prune_due' = [prune_due EXCEPT ![w] = FALSE]
            /\ pc' = [pc EXCEPT ![w] = "after"]
       ELSE /\ pc' = [pc EXCEPT ![w] = "stage"]
            /\ UNCHANGED <<out_lines, is_break, disposition, prune_due>>
    /\ UNCHANGED <<cpu_num, min_total_solving_runtime, checked_outputs, rng, rand_output,
                   cur_total_runtime, unsat_inst, operat_num, cnf_name, sent,
                   completed_min, completed_totals, entered, discovery,
                   oracle, templates, status, sideVars>>

\* lines 252-274 and the loop increment: materialize, solve, account, log
RunStage(w) ==
    /\ status = "running"
    /\ pc[w] = "stage"
    /\ StageTemplateAccepted(operat_num[w])
    /\ TimeLim(operat_num[w]) > 0
    /\ \E result \in solve_cnf(OracleLogs(oracle)), runtime \in 0 .. MaxRuntime :
        LET unsat == CountUnsat(unsat_inst[w], result)
            next == NextOperat(operat_num[w])
            total == cur_total_runtime[w] + runtime
        IN  /\ cnf_name' = [cnf_name EXCEPT ![w] = <<InstanceName(operat_num[w], w)>>]
            /\ sent' = [sent EXCEPT ![w] = Append(@, operat_num[w])]
            /\ cur_total_runtime' = [cur_total_runtime EXCEPT ![w] = total]
            /\ prune_due' = [prune_due EXCEPT ![w] = FALSE]
            /\ IF StopsOnInterr(result)
               THEN /\ is_break' = [is_break EXCEPT ![w] = TRUE]
                    /\ disposition' = [disposition EXCEPT ![w] = "inconclusive"]
                    /\ pc' = [pc EXCEPT ![w] = "after"]
                    /\ UNCHANGED <<unsat_inst, operat_num, completed_min,
                                   completed_totals, out_lines>>
               ELSE IF TooManyUnsat(unsat)
               THEN /\ unsat_inst' = [unsat_inst EXCEPT ![w] = unsat]
                    /\ out_lines' = [out_lines EXCEPT ![w] =
                            Append(@, [kind |-> "too_many_unsat",
                                       operat_num |-> operat_num[w]])]
                    /\ is_break' = [is_break EXCEPT ![w] = TRUE]
                    /\ disposition' = [disposition EXCEPT ![w] = "too_many_unsat"]
                    /\ pc' = [pc EXCEPT ![w] = "after"]
                    /\ UNCHANGED <<operat_num, completed_min, completed_totals>>
               ELSE /\ unsat_inst' = [unsat_inst EXCEPT ![w] = unsat]
                    /\ out_lines' = [out_lines EXCEPT ![w] =
                            Append(@, [kind |-> "stage", operat_num |-> operat_num[w]])]
                    /\ operat_num' = [operat_num EXCEPT ![w] = next]
                    /\ IF LoopContinues(next)
                       THEN /\ pc' = [pc EXCEPT ![w] = "check"]
                            /\ UNCHANGED <<is_break, disposition, completed_min,
                                           completed_totals>>
                       ELSE /\ disposition' = [disposition EXCEPT ![w] = "completed"]
                            /\ completed_min' = LeastOf(completed_min, total)
                            /\ completed_totals' = completed_totals \cup {total}
                            /\ pc' = [pc EXCEPT ![w] = "after"]
                            /\ UNCHANGED is_break
    /\ UNCHANGED <<cpu_num, min_total_solving_runtime, checked_outputs, rng, rand_output,
                   entered, discovery, oracle, templates, status, sideVars>>

\* line 252, gen_rand_cnf failing one of its asserts (lines 148-149): abort()
\* ends the process before the instance file is opened
RunStageAbort(w) ==
    /\ status = "running"
    /\ pc[w] = "stage"
    /\ ~StageTemplateAccepted(operat_num[w])
    /\ status' = "aborted"
    /\ UNCHANGED <<cpu_num, min_total_solving_runtime, pc, checked_outputs, rng,
                   rand_output, cur_total_runtime, unsat_inst, is_break, operat_num,
                   cnf_name, sent, disposition, prune_due, completed_min,
                   completed_totals, entered, out_lines, discovery,
                   oracle, templates, sideVars>>

\* lines 252-254, read_solver_result not getting the solver's log open
\* (lines 105-108): the instance is written, the solver has run, exit(EXIT_FAILURE)
RunStageExit(w) ==
    /\ status = "running"
    /\ pc[w] = "stage"
    /\ StageTemplateAccepted(operat_num[w])
    /\ cnf_name' = [cnf_name EXCEPT ![w] = <<InstanceName(operat_num[w], w)>>]
    /\ sent' = [sent EXCEPT ![w] = Append(@, operat_num[w])]
    /\ status' = "exited"
    /\ UNCHANGED <<cpu_num, min_total_solving_runtime, pc, checked_outputs, rng,
                   rand_output, cur_total_runtime, unsat_inst, is_break, operat_num,
                   disposition, prune_due, completed_min, completed_totals, entered,
                   out_lines, discovery, oracle, templates, sideVars>>

\* The end of one pass of the for(;;) body (`continue`, or its closing brace):
\* the variables declared in the body go out of scope.
EndIteration(w) ==
    /\ pc' = [pc EXCEPT ![w] = "gen"]
    /\ rand_output' = [rand_output EXCEPT ![w] = NoOutput]
    /\ cur_total_runtime' = [cur_total_runtime EXCEPT ![w] = 0]
    /\ unsat_inst' = [unsat_inst EXCEPT ![w] = 0]
    /\ is_break' = [is_break EXCEPT ![w] = FALSE]
    /\ operat_num' = [operat_num EXCEPT ![w] = FIRST_OPERAT]
    /\ cnf_name' = [cnf_name EXCEPT ![w] = <<>>]
    /\ sent' = [sent EXCEPT ![w] = <<>>]
    /\ disposition' = [disposition EXCEPT ![w] = "none"]
    /\ entered' = [entered EXCEPT ![w] = <<>>]
    /\ out_lines' = [out_lines EXCEPT ![w] = <<>>]

\* (mutant: `break` for `continue`: the thread leaves the for(;;) loop)
AfterStages_Stops(w) ==
    /\ status = "running"
    /\ pc[w] = "after"
    /\ ~SkipsUpdate(is_break[w])
    /\ pc' = [pc EXCEPT ![w] = "cmp"]
    /\ UNCHANGED <<cpu_num, min_total_solving_runtime, checked_outputs, rng,
                   rand_output, cur_total_runtime, unsat_inst, is_break, operat_num,
                   cnf_name, sent, disposition, prune_due, completed_min,
                   completed_totals, entered, out_lines, discovery,
                   oracle, templates, status, sideVars>>

\* lines 276-281: the progress line, then `if (is_break) continue;`
AfterStages(w) ==
    /\ status = "running"
    /\ pc[w] = "after"
    /\ IF SkipsUpdate(is_break[w])
       THEN EndIteration(w)
       ELSE /\ pc' = [pc EXCEPT ![w] = "cmp"]
            /\ out_lines' = [out_lines EXCEPT ![w] =
                    IF ProgressDue(checked_outputs[w])
                    THEN Append(@, [kind |-> "progress", operat_num |-> 0])
                    ELSE @]
            /\ UNCHANGED <<rand_output, cur_total_runtime, unsat_inst, is_break,
                           operat_num, cnf_name, sent, disposition, entered>>
    /\ UNCHANGED <<cpu_num, min_total_solving_runtime, checked_outputs, rng,
                   prune_due, completed_min, completed_totals, discovery,
                   oracle, templates, status, sideVars>>

\* line 282, first read of the shared bound
CompareBound(w) ==
    /\ status = "running"
    /\ pc[w] = "cmp"
    /\ pc' = [pc EXCEPT ![w] =
                IF BoundSeenUnset(min_total_solving_runtime) THEN "write" ELSE "cmp2"]
    /\ UNCHANGED <<cpu_num, min_total_solving_runtime, checked_outputs, rng, rand_output,
                   cur_total_runtime, unsat_inst, is_break, operat_num, cnf_name, sent,
                   disposition, prune_due, completed_min, completed_totals, entered,
                   out_lines, discovery, oracle, templates, status, sideVars>>

\* line 282, second read of the shared bound
CompareBound2(w) ==
    /\ status = "running"
    /\ pc[w] = "cmp2"
    /\ IF RuntimeBeatsBound(cur_total_runtime[w], min_total_solving_runtime)
       THEN /\ pc' = [pc EXCEPT ![w] = "write"]
            /\ UNCHANGED <<rand_output, cur_total_runtime, unsat_inst, is_break,
                           operat_num, cnf_name, sent, disposition, entered, out_lines>>
       ELSE EndIteration(w)
    /\ UNCHANGED <<cpu_num, min_total_solving_runtime, checked_outputs, rng,
                   prune_due, completed_min, completed_totals, discovery,
                   oracle, templates, status, sideVars>>

\* line 283: min_total_solving_runtime = cur_total_runtime
WriteBound(w) ==
    /\ status = "running"
    /\ pc[w] = "write"
    /\ min_total_solving_runtime' = cur_total_runtime[w]
    /\ pc' = [pc EXCEPT ![w] = "report"]
    /\ UNCHANGED <<cpu_num, checked_outputs, rng, rand_output,
                   cur_total_runtime, unsat_inst, is_break, operat_num, cnf_name, sent,
                   disposition, prune_due, completed_min, completed_totals, entered,
                   out_lines, discovery, oracle, templates, status, sideVars>>

\* lines 284-289: the discovery text, to cout and to the thread's log; its
\* "Updated min_total_solving_runtime : " value is the shared bound read again
ReportBound(w) ==
    /\ status = "running"
    /\ pc[w] = "report"
    /\ discovery' = [discovery EXCEPT ![w] =
            Append(@, [rand_output |-> rand_output[w],
                       updated |-> min_total_solving_runtime,
                       cur_total_runtime |-> cur_total_runtime[w]])]
    /\ EndIteration(w)
    /\ UNCHANGED <<cpu_num, min_total_solving_runtime, checked_outputs, rng,
                   prune_due, completed_min, completed_totals,
                   oracle, templates, status, sideVars>>

Next ==
    \/ \E w \in Workers : Startup(w)
    \/ \E w \in Workers : GenOutput(w)
    \/ \E w \in Workers : CheckBound(w)
    \/ \E w \in Workers : CheckBound2(w)
    \/ \E w \in Workers : RunStage(w)
    \/ \E w \in Workers : RunStageAbort(w)
    \/ \E w \in Workers : RunStageExit(w)
    \/ \E w \in Workers : AfterStages(w)
    \/ \E w \in Workers : CompareBound(w)
    \/ \E w \in Workers : CompareBound2(w)
    \/ \E w \in Workers : WriteBound(w)
    \/ \E w \in Workers : ReportBound(w)

Spec == Init /\ [][Next]_vars

---------------------------------------------------------------------------
\* gen_rand_cnf on its own.

InitCnf ==
    /\ MainIdle
    /\ cnf_pc = "ready"
    /\ tmpl_file \in Templates
    /\ cnf_arg \in [rand_output : CnfCandidates, operat_num : CnfOperats, seed : CnfSeeds]
    /\ cnf_file = [name |-> "", lines |-> <<>>]
    /\ SeqIdle
    /\ LogIdle
    /\ CliIdle

\* gen_rand_cnf, the template passing both asserts
GenRandCnf ==
    /\ cnf_pc = "ready"
    /\ LET t == ReadTemplate(tmpl_file, 1, 0, <<>>)
       IN  /\ TemplateAccepted(t)
           /\ cnf_file' = [name |-> RandCnfName(cnf_arg.operat_num, cnf_arg.seed),
                           lines |-> InstanceLines(t, cnf_arg.rand_output)]
    /\ cnf_pc' = "written"
    /\ UNCHANGED <<mainVars, tmpl_file, cnf_arg, seqVars, logVars, cliVars>>

\* gen_rand_cnf, an assert failing: abort() before the instance file is opened
GenRandCnfAbort ==
    /\ cnf_pc = "ready"
    /\ ~TemplateAccepted(ReadTemplate(tmpl_file, 1, 0, <<>>))
    /\ cnf_pc' = "aborted"
    /\ UNCHANGED <<mainVars, tmpl_file, cnf_arg, cnf_file, seqVars, logVars, cliVars>>

NextCnf == GenRandCnf \/ GenRandCnfAbort

SpecCnf == InitCnf /\ [][NextCnf]_vars

---------------------------------------------------------------------------
\* gen_rand_output on its own: every seed and position of the generator.

InitSeq ==
    /\ MainIdle
    /\ CnfIdle
    /\ seq_rng \in [seed : 0 .. MaxSeed, draws : 0 .. MaxDraws]
    /\ str8 = <<>>
    /\ LogIdle
    /\ CliIdle

\* string rand_output = gen_rand_output(rng);
GenRandOutput ==
    /\ str8 = <<>>
    /\ str8' = gen_rand_output(seq_rng).str
    /\ seq_rng' = [seq_rng EXCEPT !.draws = gen_rand_output(seq_rng).draws]
    /\ UNCHANGED <<mainVars, cnfVars, logVars, cliVars>>

NextSeq == GenRandOutput

SpecSeq == InitSeq /\ [][NextSeq]_vars

---------------------------------------------------------------------------
\* read_solver_result on its own: every log of up to MaxScanLines lines, and
\* a log that cannot be opened.

ScanLogs == SeqsUpTo(LogLines, MaxScanLines)

InitLog ==
    /\ MainIdle
    /\ CnfIdle
    /\ SeqIdle
    /\ log_file \in [open : {TRUE}, lines : ScanLogs] \cup {[open |-> FALSE, lines |-> <<>>]}
    /\ log_res = ""
    /\ CliIdle

\* read_solver_result, the file open: lines 109-121
ReadSolverResult ==
    /\ log_res = ""
    /\ log_file.open
    /\ log_res' = read_solver_result(log_file.lines)
    /\ UNCHANGED <<mainVars, cnfVars, seqVars, log_file, cliVars>>

\* read_solver_result, the file not open: lines 105-108
ReadSolverResultExit ==
    /\ log_res = ""
    /\ ~log_file.open
    /\ log_res' = "EXIT_FAILURE"
    /\ UNCHANGED <<mainVars, cnfVars, seqVars, log_file, cliVars>>

NextLog == ReadSolverResult \/ ReadSolverResultExit

SpecLog == InitLog /\ [][NextLog]_vars

---------------------------------------------------------------------------
\* main() from its arguments to the parallel loop.  An argument is the
\* sequence of its characters.

ArgChars == {"-", "h", "v", "0", "2"}

Args == SeqsUpTo(ArgChars, MaxArgLen)

ProgName == <<"f">>

\* argument vectors: the program name, then no, one or two arguments
ArgVectors ==
    {<<ProgName>>}
    \cup {<<ProgName, a>> : a \in Args}
    \cup {<<ProgName, a, <<"2">>>> : a \in Args}

Digits == <<"0", "1", "2", "3", "4", "5", "6", "7", "8", "9">>

IsDigit(c) == \E k \in 1 .. Len(Digits) : Digits[k] = c

DigitVal(c) == (CHOOSE k \in 1 .. Len(Digits) : Digits[k] = c) - 1

\* the digits of s from position k on: their value, and where they end
RECURSIVE ParseDigits(_, _, _)
ParseDigits(s, k, acc) ==
    IF k <= Len(s) /\ IsDigit(s[k])
    THEN ParseDigits(s, k + 1, acc * 10 + DigitVal(s[k]))
    ELSE [val |-> acc, next |-> k]

\* std::stoi: an optional sign, then digits up to the first other character;
\* no digit at all throws std::invalid_argument (the arguments of the model
\* are too short for std::out_of_range)
stoi(s) ==
    LET neg == s # <<>> /\ s[1] = "-"
        first == IF s # <<>> /\ s[1] \in {"-", "+"} THEN 2 ELSE 1
        p == ParseDigits(s, first, 0)
    IN  IF p.next = first THEN [thrown |-> "invalid_argument", val |-> 0]
        ELSE [thrown |-> "", val |-> IF neg THEN 0 - p.val ELSE p.val]

\* unsigned cpu_num = <int>: the value modulo 2^32
ToUnsigned(v) ==
    IF v >= 0 THEN U64(v)
    ELSE LET m == U64Sub(U64(0), U64(0 - v)) IN <<m[1], m[2], 0, 0>>

\* lines 202-222: what main() does with the arguments
\* (an exception nobody catches ends in std::terminate, that is abort();
\* so does a failed assert)
MainArgs(args) ==
    LET argc == Len(args)
    IN  IF argc = 2 /\ args[2] = <<"-", "h">>
        THEN [printed |-> "usage", exit |-> "EXIT_SUCCESS", workers |-> FALSE,
              cpu_num |-> U64(0)]
        ELSE IF argc = 2 /\ args[2] = <<"-", "v">>
        THEN [printed |-> "version", exit |-> "EXIT_SUCCESS", workers |-> FALSE,
              cpu_num |-> U64(0)]
        ELSE IF argc < 2
        THEN [printed |-> "usage", exit |-> "EXIT_FAILURE", workers |-> FALSE,
              cpu_num |-> U64(0)]
        ELSE LET n == stoi(args[2])
             IN  IF n.thrown # ""
                 THEN [printed |-> "", exit |-> "abort", workers |-> FALSE,
                       cpu_num |-> U64(0)]
                 ELSE IF ToUnsigned(n.val) = U64(0)
                 THEN [printed |-> "", exit |-> "abort", workers |-> FALSE,
                       cpu_num |-> U64(0)]
                 ELSE [printed |-> "", exit |-> "", workers |-> TRUE,
                       cpu_num |-> ToUnsigned(n.val)]

InitCli ==
    /\ MainIdle
    /\ CnfIdle
    /\ SeqIdle
    /\ LogIdle
    /\ str_argv \in ArgVectors
    /\ outcome = NoOutcome

Main ==
    /\ outcome = NoOutcome
    /\ outcome' = MainArgs(str_argv)
    /\ UNCHANGED <<mainVars, cnfVars, seqVars, logVars, str_argv>>

NextCli == Main

SpecCli == InitCli /\ [][NextCli]_vars

---------------------------------------------------------------------------
\* Properties of the worker pool (checked under Spec).

AllOperats == [k \in 1 .. (LAST_OPERAT - FIRST_OPERAT + 1) |-> FIRST_OPERAT + k - 1]

\* thread w executes line 283
Writes(w) == pc[w] = "write" /\ pc'[w] = "report"

Abandoned(w) == disposition[w] \in {"pruned", "inconclusive", "too_many_unsat"}

Evaluated(w) == disposition[w] \in {"pruned", "inconclusive", "too_many_unsat", "completed"}

\* C1: once the bound is set, every write to it, by any thread and under every
\* interleaving, stores a value strictly smaller than the value it held
\* immediately before the write.
C1_EveryWriteLowersBound ==
    [][\A w \in Workers :
         (Writes(w) /\ min_total_solving_runtime # UNSET)
            => min_total_solving_runtime' < min_total_solving_runtime]_vars

\* C2: a candidate that enters a stage while the bound is set to B (B = 0
\* included) with cur_total_runtime >= B never gets to materialize or solve
\* that stage: it is pruned.
C2_PrunedAtSetBound ==
    \A w \in Workers : ~(prune_due[w] /\ pc[w] = "stage")

\* C3: a candidate is abandoned for too many UNSAT instances exactly at the
\* stage whose UNSAT verdict raises unsat_inst to 4: never with unsat_inst <= 3,
\* and with unsat_inst = 4 the thread is past the stage loop, the last stage
\* sent being the one it stopped at.
C3_TooManyUnsatAtFourth ==
    \A w \in Workers :
        /\ unsat_inst[w] <= MAX_UNSAT_INST + 1
        /\ disposition[w] = "too_many_unsat" <=> unsat_inst[w] = MAX_UNSAT_INST + 1
        /\ unsat_inst[w] = MAX_UNSAT_INST + 1 =>
                /\ pc[w] = "after"
                /\ is_break[w]
                /\ Len(sent[w]) >= MAX_UNSAT_INST + 1
                /\ sent[w][Len(sent[w])] = operat_num[w]

C3_Witness ==
    \E w \in Workers :
        /\ disposition[w] = "too_many_unsat"
        /\ unsat_inst[w] = 4
        /\ sent[w] = <<3, 4, 5, 6>>

\* C4: the bound is written only by a thread whose candidate completed (stages
\* 3..7 all ran, none inconclusive, unsat_inst <= 3), and only when the bound
\* was unset or the candidate's cur_total_runtime was strictly less than it; a
\* step of a thread whose candidate was abandoned leaves the bound unchanged.
C4_WrittenOnlyByBetterCompleted ==
    [][/\ \A w \in Workers :
            Writes(w) =>
                /\ disposition[w] = "completed"
                /\ sent[w] = AllOperats
                /\ unsat_inst[w] <= MAX_UNSAT_INST
                /\ \/ min_total_solving_runtime = UNSET
                   \/ cur_total_runtime[w] < min_total_solving_runtime
       /\ \A w \in Workers :
            (Abandoned(w) /\ pc'[w] # pc[w])
                => min_total_solving_runtime' = min_total_solving_runtime
       /\ min_total_solving_runtime' # min_total_solving_runtime
            => \E w \in Workers : Writes(w)]_vars

\* C5: whenever no thread is between completing a candidate and the end of
\* that pass of its loop, the bound is unset if no candidate has completed and
\* otherwise is the least cur_total_runtime of the candidates completed so far.
C5_BoundIsLeastCompleted ==
    (\A w \in Workers : disposition[w] # "completed")
        => min_total_solving_runtime = completed_min

\* C6: with a solver that never leaves a verdict marker (and whose log is
\* always there to be read), every candidate is sent to the solver once, at
\* stage 3, and is then abandoned; unsat_inst is always 0 and the bound stays
\* unset.
C6_AllInconclusive ==
    (solve_cnf(OracleLogs(oracle)) = {INTERR} /\ status # "exited") =>
        /\ min_total_solving_runtime = UNSET
        /\ completed_min = UNSET
        /\ \A w \in Workers :
            /\ unsat_inst[w] = 0
            /\ disposition[w] \in {"none", "running", "inconclusive"}
            /\ sent[w] \in {<<>>, <<FIRST_OPERAT>>}
            /\ sent[w] = <<FIRST_OPERAT>> <=> disposition[w] = "inconclusive"
            /\ disposition[w] = "inconclusive" <=> pc[w] = "after"
            /\ pc[w] \in {"start", "gen", "check", "stage", "after"}

C6_Witness ==
    /\ solve_cnf(OracleLogs(oracle)) = {INTERR}
    /\ status = "running"
    /\ \E w \in Workers :
        /\ checked_outputs[w] = 2
        /\ disposition[w] = "inconclusive"
        /\ sent[w] = <<3>>

\* C7: the stages sent to the solver for one candidate are a prefix of
\* 3,4,5,6,7 (increasing from 3, none skipped or repeated, at most 5), and the
\* prefix is the whole list exactly when the candidate was not abandoned before
\* stage 7 nor pruned at stage 7.
C7_StagesArePrefix ==
    \A w \in Workers :
        /\ Len(sent[w]) <= Len(AllOperats)
        /\ sent[w] = SubSeq(AllOperats, 1, Len(sent[w]))
        /\ Evaluated(w) =>
            (sent[w] = AllOperats <=>
                ~(Abandoned(w) /\ (operat_num[w] < LAST_OPERAT \/ disposition[w] = "pruned")))

C7_Witness ==
    \E w \in Workers :
        /\ disposition[w] = "pruned"
        /\ operat_num[w] = 7
        /\ sent[w] = <<3, 4, 5, 6>>

---------------------------------------------------------------------------
\* Properties of gen_rand_cnf (checked under SpecCnf).

\* the template as the format describes it: comments, one header, clause lines
TemplateClauseLines ==
    SelectSeq(tmpl_file, LAMBDA line : ~StartsWith(line, "c") /\ ~StartsWith(line, "p"))

TemplateHeader == SelectSeq(tmpl_file, LAMBDA line : StartsWith(line, "p"))[1]

DeclaredVars == U64ToNat(TemplateHeader[3].mag)

\* a clause of one literal: a nonzero number, then the closing 0
IsUnitClause(line) ==
    /\ Len(line) = 2
    /\ line[1].w = ""
    /\ line[1].mag # U64(0)
    /\ line[2] = Num(0)

\* the i-th appended line, i counted from 0
Appended(i) == cnf_file.lines[1 + Len(TemplateClauseLines) + 1 + i]

\* C8: the instance written for a template of V > 0 variables and C >= 1
\* clause lines has the header "p cnf V C+512" and, after it, the C template
\* clauses in their order followed by exactly 512 unit clauses.
C8_HeaderAndBody ==
    cnf_pc = "written" =>
        /\ cnf_file.lines[1] =
                <<Word("p"), Word("cnf"), Num(DeclaredVars),
                  Num(Len(TemplateClauseLines) + 512)>>
        /\ Len(cnf_file.lines) = 1 + Len(TemplateClauseLines) + 512
        /\ SubSeq(cnf_file.lines, 2, 1 + Len(TemplateClauseLines)) = TemplateClauseLines
        /\ \A i \in 0 .. 511 : IsUnitClause(Appended(i))

\* C9: for every V > 0 (also V < 512) the i-th appended unit clause is on
\* variable V-511+i, which lies in 1..V, and its literal is negative iff
\* candidate bit i is 0.
C9_UnitClauseVariables ==
    cnf_pc = "written" =>
        \A i \in 0 .. 511 :
            /\ U64IsSmall(Appended(i)[1].mag)
            /\ U64ToNat(Appended(i)[1].mag) = DeclaredVars - 511 + i
            /\ U64ToNat(Appended(i)[1].mag) \in 1 .. DeclaredVars
            /\ Appended(i)[1].neg <=> cnf_arg.rand_output[i + 1] = 0

\* the scenario of C10: stage 3, 600 variables, 50 clauses, bits 10110100...
C10_Scenario ==
    /\ cnf_pc = "written"
    /\ cnf_arg.operat_num = 3
    /\ DeclaredVars = 600
    /\ Len(TemplateClauseLines) = 50
    /\ SubSeq(cnf_arg.rand_output, 1, 8) = <<1, 0, 1, 1, 0, 1, 0, 0>>

C10_MapsBitsTo89To600 ==
    /\ cnf_file.lines[1] = <<Word("p"), Word("cnf"), Num(600), Num(562)>>
    /\ SubSeq(cnf_file.lines, 2, 51) = TemplateClauseLines
    /\ Len(cnf_file.lines) = 563
    /\ \A i \in 0 .. 511 :
            \E v \in {89 + i, 0 - (89 + i)} : Appended(i) = <<Num(v), Num(0)>>

\* C10 as stated: in the scenario the header is "p cnf 600 562" and the first
\* five appended clauses are "-89 0", "90 0", "91 0", "92 0", "-93 0".
C10_AsStated ==
    C10_Scenario =>
        /\ C10_MapsBitsTo89To600
        /\ [i \in 1 .. 5 |-> Appended(i - 1)]
             = <<<<Num(-89), Num(0)>>, <<Num(90), Num(0)>>, <<Num(91), Num(0)>>,
                 <<Num(92), Num(0)>>, <<Num(-93), Num(0)>>>>

\* C10 amended: in the scenario the header is "p cnf 600 562" and the first
\* five appended clauses are "89 0", "-90 0", "91 0", "92 0", "-93 0" (negative
\* for bit 0, positive for bit 1), the 512 unit clauses mapping bits to 89..600.
C10_Amended ==
    C10_Scenario =>
        /\ C10_MapsBitsTo89To600
        /\ [i \in 1 .. 5 |-> Appended(i - 1)]
             = <<<<Num(89), Num(0)>>, <<Num(-90), Num(0)>>, <<Num(91), Num(0)>>,
                 <<Num(92), Num(0)>>, <<Num(-93), Num(0)>>>>

C10_Witness == C10_Scenario /\ cnf_arg.seed = 1


---------------------------------------------------------------------------
\* Properties of gen_rand_output (checked under SpecSeq).

\* bit 16k+8+j of s exists and is the complement of bit 16k+j, for j in 0..7
\* (bits counted from 0)
SecondHalfInverted(s, k) ==
    \A j \in 0 .. 7 :
        /\ 16 * k + 8 + j < Len(s)
        /\ s[16 * k + 8 + j + 1] = 1 - s[16 * k + j + 1]

IsBitString512(s) == Len(s) = 512 /\ \A i \in 1 .. Len(s) : s[i] \in {0, 1}

\* C11 as stated: the string gen_rand_output returns has length 512, holds
\* only 0 and 1, and in each of its 64 consecutive 16-bit blocks k (k in 0..63)
\* bit 16k+8+j is the complement of bit 16k+j for every j in 0..7.
C11_AsStated ==
    str8 # <<>> =>
        /\ IsBitString512(str8)
        /\ \A k \in 0 .. 63 : SecondHalfInverted(str8, k)

\* C11 amended: the string gen_rand_output returns has length 512, holds only
\* 0 and 1, and in each of its 32 consecutive 16-bit blocks k (k in 0..31)
\* bit 16k+8+j is the complement of bit 16k+j for every j in 0..7.
C11_Amended ==
    str8 # <<>> =>
        /\ IsBitString512(str8)
        /\ \A k \in 0 .. 31 : SecondHalfInverted(str8, k)

\* a generator that had been used before: seed 3, 5 draws taken, 256 more now
C11_Witness ==
    /\ str8 # <<>>
    /\ seq_rng = [seed |-> 3, draws |-> 5 + 256]
    /\ SubSeq(str8, 1, 8) # SubSeq(str8, 17, 24)

---------------------------------------------------------------------------
\* Properties of read_solver_result (checked under SpecLog).

HasMarker(line) == SatMarker \in line \/ UnsatMarker \in line

MarkerLines(log) == {k \in 1 .. Len(log) : HasMarker(log[k])}

FirstMarkerLine(log) == CHOOSE k \in MarkerLines(log) : \A j \in MarkerLines(log) : k <= j

\* C12: for every log that can be opened, read_solver_result returns the
\* verdict of the first line holding a marker, SAT if that line holds
\* "s SATISFIABLE" and otherwise UNSAT (it holds "s UNSATISFIABLE"), whatever
\* the lines after it hold; a log without a marker line, the empty log
\* included, gives INTERR.
C12_FirstMarkerDecides ==
    (log_res # "" /\ log_file.open) =>
        IF MarkerLines(log_file.lines) = {}
        THEN log_res = INTERR
        ELSE LET first == log_file.lines[FirstMarkerLine(log_file.lines)]
             IN  /\ SatMarker \in first => log_res = SAT
                 /\ SatMarker \notin first => log_res = UNSAT

\* a plain line, the UNSAT marker, then a line with the SAT marker
C12_Witness ==
    /\ log_file.open
    /\ log_file.lines = <<{}, {UnsatMarker}, {SatMarker}>>
    /\ log_res = UNSAT

---------------------------------------------------------------------------
\* Properties of the threads' files and of fatal errors (checked under Spec).

\* every file thread w creates or writes, at whatever stage
FilesOf(w) ==
    {OutputName(w), SolverLogName(w)}
    \cup {InstanceName(op, w) : op \in FIRST_OPERAT .. LAST_OPERAT}

\* C13: the threads are numbered 0..cpu_num-1 without repetition; a thread
\* that has started has seeded its generator with its number; the instance
\* file it has written for the stage carries its number; and no file that one
\* thread writes (its log, the solver's log it reads the verdict from, its
\* instance files) is a file of another thread.
C13_FilesKeyedByThread ==
    /\ DOMAIN pc = 0 .. (cpu_num - 1)
    /\ Cardinality(DOMAIN pc) = cpu_num
    /\ \A w \in Workers :
        /\ pc[w] # "start" => rng[w].seed = w
        /\ \A k \in 1 .. Len(cnf_name[w]) :
            /\ cnf_name[w][k].seed = w
            /\ cnf_name[w][k] \in FilesOf(w)
    /\ \A w, v \in Workers : w # v => FilesOf(w) \cap FilesOf(v) = {}

\* two threads, each with the instance of stage 3 written
C13_Witness ==
    /\ cpu_num = 2
    /\ cnf_name[0] = <<InstanceName(3, 0)>>
    /\ cnf_name[1] = <<InstanceName(3, 1)>>

\* what the format says of a template file, whatever gen_rand_cnf makes of it
ClauseLinesOf(lines) ==
    SelectSeq(lines, LAMBDA line : ~StartsWith(line, "c") /\ ~StartsWith(line, "p"))

DeclaresPositiveCount(lines) ==
    \E k \in 1 .. Len(lines) :
        /\ StartsWith(lines[k], "p")
        /\ Len(lines[k]) >= 3
        /\ lines[k][3].w = ""
        /\ ~lines[k][3].neg
        /\ lines[k][3].mag # U64(0)

\* the template of stage op is missing, declares no positive variable count,
\* or has no clause line
ConfigurationError(op) ==
    \/ templates[op] = <<>>
    \/ ~DeclaresPositiveCount(templates[op])
    \/ ClauseLinesOf(templates[op]) = <<>>

AtBrokenStage(w) == pc[w] = "stage" /\ ConfigurationError(operat_num[w])

\* thread w has had the solver run on its stage and is still at the call
SolverRan(w) ==
    /\ pc[w] = "stage"
    /\ sent[w] # <<>>
    /\ sent[w][Len(sent[w])] = operat_num[w]

C14_StateOfProcess ==
    /\ status \in {"running", "aborted", "exited"}
    \* no instance is written, no solver run, for a stage whose template is broken
    /\ \A w \in Workers :
        /\ \A k \in 1 .. Len(sent[w]) : ~ConfigurationError(sent[w][k])
        /\ \A k \in 1 .. Len(cnf_name[w]) : ~ConfigurationError(cnf_name[w][k].operat_num)
    \* a thread entering such a stage can only abort the process
    /\ \A w \in Workers :
        (status = "running" /\ AtBrokenStage(w)) =>
            (ENABLED RunStageAbort(w) /\ ~ENABLED RunStage(w) /\ ~ENABLED RunStageExit(w))
    \* the process has stopped only for one of the two reasons
    /\ status = "aborted" => \E w \in Workers : AtBrokenStage(w)
    /\ status = "exited" => \E w \in Workers : SolverRan(w)
    \* an abandoned candidate leaves its thread with the next step to take
    /\ \A w \in Workers :
        (status = "running" /\ Abandoned(w)) => ENABLED AfterStages(w)

C14_StepOfProcess ==
    \* once stopped, nothing moves
    /\ status = "running"
    \* the process stops only in a thread's step at a stage: the template broken
    \* (abort), or the solver's log not opened (exit)
    /\ status' = "aborted" =>
        \E w \in Workers : AtBrokenStage(w) /\ sent'[w] = sent[w] /\ cnf_name'[w] = cnf_name[w]
    /\ status' = "exited" => \E w \in Workers : pc[w] = "stage" /\ SolverRan(w)'
    \* a candidate's abandonment does not stop it
    /\ \A w \in Workers :
        (disposition'[w] # disposition[w]
            /\ disposition'[w] \in {"pruned", "inconclusive", "too_many_unsat"})
            => status' = "running"

---------------------------------------------------------------------------
\* Properties of the threads' logs and candidates (checked under Spec).

\* the lines the candidate's stages have appended, progress lines left out
StageLines(w) == SelectSeq(out_lines[w], LAMBDA line : line.kind # "progress")

\* thread w is inside the body of the stage loop
InStage(w) == pc[w] \in {"check2", "stage"}

\* C15: for every stage a candidate has entered and left, whatever the way it
\* left it (completed, pruned, too many UNSAT, inconclusive), the thread has
\* appended exactly one line to its log: the k-th stage line is the line of
\* the k-th stage entered.
C15_OneLinePerStageEntry ==
    \A w \in Workers :
        LET left == IF InStage(w) THEN Len(entered[w]) - 1 ELSE Len(entered[w])
        IN  /\ Len(StageLines(w)) = left
            /\ \A k \in 1 .. left : StageLines(w)[k].operat_num = entered[w][k]

\* draws one candidate takes: 8 for each of the 32 blocks
DrawsPerCandidate == SUBSEQ_LEN_1 * (SEQ_LEN \div (2 * SUBSEQ_LEN_1))

\* the generator of thread k after j candidates: a function of k and j alone
RngAfter(k, j) == [seed |-> k, draws |-> j * DrawsPerCandidate]

\* C16: the candidate thread k holds as its j-th is the string drawn from a
\* generator seeded with k and advanced by the j-1 candidates before it, and
\* the thread's generator has been advanced by its j candidates and by nothing
\* else: whatever the number of threads, the solver's verdicts and runtimes,
\* the bound, and the other threads' progress.
C16_CandidateDeterminedBySeed ==
    \A w \in Workers :
        /\ pc[w] # "start" => rng[w] = RngAfter(w, checked_outputs[w])
        /\ disposition[w] # "none" =>
            /\ checked_outputs[w] >= 1
            /\ rand_output[w] = RngAfter(w, checked_outputs[w] - 1)

\* thread 1 of two holding its second candidate, a bound already set
C16_Witness ==
    /\ cpu_num = 2
    /\ checked_outputs[1] = 2
    /\ disposition[1] = "running"
    /\ operat_num[1] = 4
    /\ min_total_solving_runtime # UNSET

---------------------------------------------------------------------------
\* Properties of the command line (checked under SpecCli).

\* the argument is the decimal numeral of a positive integer
IsWorkerCount(a) ==
    /\ a # <<>>
    /\ \A k \in 1 .. Len(a) : IsDigit(a[k])
    /\ \E k \in 1 .. Len(a) : a[k] # "0"

Argc == Len(str_argv)

OnlyArgIs(a) == Argc = 2 /\ str_argv[2] = a

UsageAndFailure ==
    outcome.printed = "usage" /\ outcome.exit = "EXIT_FAILURE" /\ ~outcome.workers

\* C17: a single argument -h prints the usage and exits with success; a single
\* argument -v prints the version and exits with success; no argument prints
\* the usage and exits with failure; a worker-count argument that is not a
\* positive number (text, 0, a negative number) prints the usage and exits
\* with failure; in none of these cases is a thread started.
C17_CommandLineOutcomes ==
    outcome # NoOutcome =>
        /\ OnlyArgIs(<<"-", "h">>) =>
            (outcome.printed = "usage" /\ outcome.exit = "EXIT_SUCCESS" /\ ~outcome.workers)
        /\ OnlyArgIs(<<"-", "v">>) =>
            (outcome.printed = "version" /\ outcome.exit = "EXIT_SUCCESS" /\ ~outcome.workers)
        /\ Argc < 2 => UsageAndFailure
        /\ (/\ Argc >= 2
            /\ ~OnlyArgIs(<<"-", "h">>)
            /\ ~OnlyArgIs(<<"-", "v">>)
            /\ ~IsWorkerCount(str_argv[2])) => UsageAndFailure

\* C18: every store to the bound is followed by one discovery text of the
\* storing thread, which names as the updated bound the cur_total_runtime of
\* the candidate it prints (the value the thread stored), not a value another
\* thread stored in between; and there is no discovery text without a store:
\* a pass has at most one, and only after its store.
C18_DiscoveryReportsStoredRuntime ==
    \A w \in Workers :
        /\ Len(discovery[w]) <= 1
        /\ pc[w] \in {"check", "check2", "stage", "after", "cmp", "cmp2", "write", "report"}
                => discovery[w] = <<>>
        /\ (status = "running" /\ pc[w] = "report") => ENABLED ReportBound(w)
        /\ \A k \in 1 .. Len(discovery[w]) :
                discovery[w][k].updated = discovery[w][k].cur_total_runtime

\* the steps of thread w
StepOf(w) ==
    \/ Startup(w) \/ GenOutput(w) \/ CheckBound(w) \/ CheckBound2(w)
    \/ RunStage(w) \/ RunStageAbort(w) \/ RunStageExit(w) \/ AfterStages(w)
    \/ CompareBound(w) \/ CompareBound2(w) \/ WriteBound(w) \/ ReportBound(w)

\* how far thread w is in its pass over the candidate
PcRank(p) ==
    CASE p = "check" -> 0 [] p = "check2" -> 1 [] p = "stage" -> 2
      [] p = "after" -> 3 [] p = "cmp" -> 4 [] p = "cmp2" -> 5
      [] p = "write" -> 6 [] p = "report" -> 7 [] OTHER -> 8

PassMeasure(w) ==
    IF pc[w] \in {"check", "check2", "stage"}
    THEN 3 * (operat_num[w] - FIRST_OPERAT) + PcRank(pc[w])
    ELSE 3 * (LAST_OPERAT - FIRST_OPERAT + 1) + PcRank(pc[w])

\* while the process runs a thread always has its next step (short of the
\* model's bound on the candidates generated)
C19_NeverStops ==
    \A w \in Workers :
        (status = "running" /\ (pc[w] # "gen" \/ TotalChecked < MaxChecked))
            => ENABLED StepOf(w)

C19_NextCandidateIsFresh ==
    \A w \in Workers :
        \* the pass over a candidate advances with every step of the thread
        /\ (pc'[w] # pc[w] /\ pc[w] \notin {"start", "gen"})
            => (pc'[w] = "gen" \/ PassMeasure(w)' > PassMeasure(w))
        \* whatever the disposition, the thread's way leads back to the head
        \* of the for(;;) loop
        /\ (pc'[w] # pc[w] /\ pc[w] = "after") => pc'[w] \in {"gen", "cmp"}
        \* and the next candidate starts from nothing
        /\ (pc'[w] # pc[w] /\ pc[w] = "gen") =>
            /\ pc'[w] = "check"
            /\ checked_outputs'[w] = checked_outputs[w] + 1
            /\ rand_output'[w] = rng[w]
            /\ rng'[w] # rng[w]
            /\ operat_num'[w] = FIRST_OPERAT
            /\ cur_total_runtime'[w] = 0
            /\ unsat_inst'[w] = 0
            /\ ~is_break'[w]
            /\ sent'[w] = <<>>

\* C19: after every disposition of a candidate (completed, pruned,
\* inconclusive, too many UNSAT) the thread goes on: each of its steps is
\* followed by another, a pass over a candidate takes a bounded number of
\* them, and the pass that follows starts a fresh candidate at stage 3 with
\* cur_total_runtime = 0 and unsat_inst = 0.  (With every solver call
\* returning, that is: a thread that keeps taking steps evaluates one
\* candidate after another without end.)
C19_WorkerGoesOnFresh ==
    []C19_NeverStops /\ [][C19_NextCandidateIsFresh]_vars

\* one thread whose first candidate completed with 5 ms and which is at
\* stage 3 of its second
C19_Witness ==
    /\ cpu_num = 1
    /\ completed_totals = {5}
    /\ checked_outputs[0] = 2
    /\ pc[0] = "stage"
    /\ operat_num[0] = 3
    /\ cur_total_runtime[0] = 0
    /\ unsat_inst[0] = 0

\* C20: the bound is -1 or the cur_total_runtime some completed candidate
\* ended with; a candidate counts as completed only after stages 3..7 all
\* ran with no INTERR and at most 3 UNSAT (so at least 2 SAT), one stage line
\* each; and only a thread holding such a candidate gets to the store.
C20_BoundIsACompletedTotal ==
    /\ min_total_solving_runtime = UNSET \/ min_total_solving_runtime \in completed_totals
    /\ \A w \in Workers :
        /\ pc[w] \in {"cmp", "cmp2", "write", "report"} => disposition[w] = "completed"
        /\ disposition[w] = "completed" =>
            /\ sent[w] = AllOperats
            /\ entered[w] = AllOperats
            /\ ~is_break[w]
            /\ unsat_inst[w] <= MAX_UNSAT_INST
            /\ Len(sent[w]) - unsat_inst[w] >= 2
            /\ \A k \in 1 .. Len(out_lines[w]) : out_lines[w][k].kind \in {"stage", "progress"}
            /\ cur_total_runtime[w] \in completed_totals

\* two candidates completed, the bound the total of the slower one
C20_Witness ==
    /\ completed_totals = {2, 4}
    /\ min_total_solving_runtime = 4
==========================================================================
